---- MODULE Spec2Model ----
(***************************************************************************)
(* Model of the Sentinel "Machine Learning Behavior Analytics" alert rule  *)
(* resource: resourceSentinelAlertRuleMLBehaviorAnalyticsCreateUpdate,     *)
(* ...Read and ...Delete, running against the remote alert rule            *)
(* collection that other actors may change at any time.                    *)
(*                                                                         *)
(* Every handler is cut at its remote calls: one action per remote call    *)
(* together with the local code that follows it up to the next remote call *)
(* or the return.  pc is the handler's position; a handler that has begun  *)
(* runs to its return before another one begins.                           *)
(*                                                                         *)
(* Strings that are resource identifiers are sequences of path segments.   *)
(***************************************************************************)
EXTENDS Integers, Sequences, FiniteSets, TLC

(* ---------------------------------------------------------------- bounds *)

\* Number of etags the remote service can hand out (= number of writes).
MaxEtag == 4

(* ------------------------------------------------------------ value sets *)

KindMLBehaviorAnalytics == "MLBehaviorAnalytics"
KindFusion == "Fusion"
Kinds == {KindMLBehaviorAnalytics, KindFusion}

Names == {"rule1"}
Guids == {"guid1", "guid2"}
Subscription == "sub1"
ResourceGroup == "rg1"
WorkspaceName == "ws1"

\* The nil *string of an Etag field.
NoEtag == 0
Etags == 1..MaxEtag

EmptyString == << >>

(* ------------------------------------------------- identifiers (strings) *)

\* loganalyticsParse.NewLogAnalyticsWorkspaceID(...).ID()
FormatWorkspaceID(sub, rg, ws) ==
    << "subscriptions", sub, "resourceGroups", rg,
       "providers", "Microsoft.OperationalInsights", "workspaces", ws >>

\* loganalyticsParse.LogAnalyticsWorkspaceID(input)
ParseWorkspaceID(s) ==
    IF /\ Len(s) = 8
       /\ s[1] = "subscriptions" /\ s[3] = "resourceGroups"
       /\ s[5] = "providers" /\ s[6] = "Microsoft.OperationalInsights"
       /\ s[7] = "workspaces"
       /\ s[2] # "" /\ s[4] # "" /\ s[8] # ""
    THEN [ok |-> TRUE, SubscriptionId |-> s[2], ResourceGroup |-> s[4],
          WorkspaceName |-> s[8]]
    ELSE [ok |-> FALSE, SubscriptionId |-> "", ResourceGroup |-> "",
          WorkspaceName |-> ""]

\* The zero value of parse.AlertRuleId.
NoId == [SubscriptionId |-> "", ResourceGroup |-> "", WorkspaceName |-> "",
         Name |-> ""]

\* parse.NewAlertRuleID(subscription, resourceGroup, workspace, name)
NewAlertRuleID(sub, rg, ws, name) ==
    [SubscriptionId |-> sub, ResourceGroup |-> rg, WorkspaceName |-> ws,
     Name |-> name]

\* parse.AlertRuleId.ID()
FormatAlertRuleID(i) ==
    FormatWorkspaceID(i.SubscriptionId, i.ResourceGroup, i.WorkspaceName)
        \o << "providers", "Microsoft.SecurityInsights", "alertRules", i.Name >>

\* parse.AlertRuleID(input)
ParseAlertRuleID(s) ==
    IF /\ Len(s) = 12
       /\ ParseWorkspaceID(SubSeq(s, 1, 8)).ok
       /\ s[9] = "providers" /\ s[10] = "Microsoft.SecurityInsights"
       /\ s[11] = "alertRules" /\ s[12] # ""
    THEN [ok |-> TRUE, id |-> NewAlertRuleID(s[2], s[4], s[8], s[12])]
    ELSE [ok |-> FALSE, id |-> NoId]

ValidWorkspaceInput == FormatWorkspaceID(Subscription, ResourceGroup, WorkspaceName)
\* A workspace identifier that lacks its last segment pair.
BadWorkspaceInput == SubSeq(ValidWorkspaceInput, 1, 6)
WorkspaceInputs == {ValidWorkspaceInput, BadWorkspaceInput}

\* The remote collection is addressed by (resource group, workspace, name).
Keys == {<<ResourceGroup, WorkspaceName, n>> : n \in Names}
KeyOf(i) == <<i.ResourceGroup, i.WorkspaceName, i.Name>>

(* ------------------------------------------------------------ remote data *)

\* No rule at a key.
Absent == [exists |-> FALSE, kind |-> "", hasProps |-> FALSE,
           enabled |-> FALSE, guid |-> "", etag |-> NoEtag]

Rule(kind, hasProps, enabled, guid, etag) ==
    [exists |-> TRUE, kind |-> kind, hasProps |-> hasProps,
     enabled |-> enabled, guid |-> guid, etag |-> etag]

\* A nil resp.Value.
NilValue == [isNil |-> TRUE, ID |-> EmptyString, rule |-> Absent]

NoParams == [Kind |-> "", AlertRuleTemplateName |-> "", Enabled |-> FALSE,
             Etag |-> NoEtag]

NoResp == [status |-> "none", Value |-> NilValue]

\* What a foreign actor may store at a key.
ForeignGuid == "guid2"
ForeignRules ==
    { Rule(KindFusion, TRUE, TRUE, ForeignGuid, NoEtag),
      Rule(KindMLBehaviorAnalytics, FALSE, FALSE, "", NoEtag),
      Rule(KindMLBehaviorAnalytics, TRUE, TRUE, ForeignGuid, NoEtag),
      Rule(KindMLBehaviorAnalytics, TRUE, FALSE, ForeignGuid, NoEtag) }

(* ------------------------------------------------------------------ state *)

VARIABLES
    remote,     \* the remote collection: key -> rule or Absent
    nextEtag,   \* the etag the service gives to its next write
    d,          \* the schema.ResourceData of the resource
    cfg,        \* the configuration handed to Create or Update, none on import
    isNew,      \* d.IsNewResource()
    pc,         \* position of the running handler, "idle" between handlers
    op,         \* the handler (or import) running or last run
    id,         \* the handler's local id
    params,     \* the handler's local params
    resp,       \* the handler's last resp
    err,        \* what the last handler returned
    calls,      \* the remote calls of the handler running or last run
    afterCreate, \* the handler that ran before op was a Create without error
    deleted     \* keys deleted by Delete and written by nobody since

vars == << remote, nextEtag, d, cfg, isNew, pc, op, id, params, resp, err,
           calls, afterCreate, deleted >>

EmptyData == [id |-> EmptyString, name |-> "",
              log_analytics_workspace_id |-> EmptyString,
              alert_rule_template_guid |-> "", enabled |-> FALSE]

Fields(dd) == [name |-> dd.name,
               log_analytics_workspace_id |-> dd.log_analytics_workspace_id,
               alert_rule_template_guid |-> dd.alert_rule_template_guid,
               enabled |-> dd.enabled]

Call(c, outcome, value, p) ==
    [call |-> c, outcome |-> outcome, Value |-> value, params |-> p]

Init ==
    /\ remote = [k \in Keys |-> Absent]
    /\ nextEtag = 1
    /\ d = EmptyData
    /\ cfg = Fields(EmptyData)
    /\ isNew = FALSE
    /\ pc = "idle"
    /\ op = "none"
    /\ id = NoId
    /\ params = NoParams
    /\ resp = NoResp
    /\ err = "none"
    /\ calls = << >>
    /\ afterCreate = FALSE
    /\ deleted = {}

(* --------------------------------------------------- the remote collection *)

\* AlertRulesClient.Get: what the service answers, or a failure that is not
\* a not-found.
GetResponses(key) ==
    { [status |-> "error", Value |-> NilValue],
      IF remote[key].exists
      THEN [status |-> "ok",
            Value |-> [isNil |-> FALSE,
                       ID |-> FormatAlertRuleID(
                                 NewAlertRuleID(Subscription, key[1], key[2], key[3])),
                       rule |-> remote[key]]]
      ELSE [status |-> "notfound", Value |-> NilValue] }

\* The service accepts a payload without etag, and one whose etag is the
\* rule's current etag.
EtagAccepted(key, p) ==
    \/ p.Etag = NoEtag
    \/ remote[key].exists /\ remote[key].etag = p.Etag

\* AlertRulesClient.CreateOrUpdate
WriteOutcomes(key, p) ==
    {"error"}
        \cup (IF ~EtagAccepted(key, p) THEN {"precondition"} ELSE {})
        \cup (IF EtagAccepted(key, p) /\ nextEtag <= MaxEtag THEN {"ok"} ELSE {})

Stored(p) == Rule(p.Kind, TRUE, p.Enabled, p.AlertRuleTemplateName, nextEtag)

\* AlertRulesClient.Delete
DeleteOutcomes(key) ==
    {"error", "ok"} \cup (IF remote[key].exists THEN {} ELSE {"notfound"})

\* Another actor writes a rule of any kind at a key.
ForeignWrite ==
    /\ nextEtag <= MaxEtag
    /\ \E k \in Keys, r \in ForeignRules :
          remote' = [remote EXCEPT ![k] = [r EXCEPT !.etag = nextEtag]]
          /\ deleted' = deleted \ {k}
    /\ nextEtag' = nextEtag + 1
    /\ UNCHANGED << d, cfg, isNew, pc, op, id, params, resp, err, calls, afterCreate >>

\* Another actor deletes the rule at a key.
ForeignDelete ==
    /\ \E k \in Keys :
          /\ remote[k].exists
          /\ remote' = [remote EXCEPT ![k] = Absent]
    /\ UNCHANGED << nextEtag, d, cfg, isNew, pc, op, id, params, resp, err,
                    calls, afterCreate, deleted >>

(* ------------------------------------------------- helpers of the package *)

\* alertRuleID(rule): the ID of the rule, nil (here the empty string) for a
\* nil rule.
alertRuleID(value) == IF value.isNil THEN EmptyString ELSE value.ID

\* assertAlertRuleKind(rule, expectKind) returns no error.
assertAlertRuleKind(value, expectKind) ==
    ~value.isNil /\ value.rule.kind = expectKind

(* -------------------------------------------------------- CreateUpdate *)

\* BuildParams with the schema default of enabled in place of its value.
BuildParams_DefaultEnabled(dd) ==
    [Kind |-> KindMLBehaviorAnalytics,
     AlertRuleTemplateName |-> dd.alert_rule_template_guid,
     Enabled |-> TRUE,
     Etag |-> NoEtag]

\* Lines 98-104: the payload built from the configuration.
BuildParams(dd) ==
    [Kind |-> KindMLBehaviorAnalytics,
     AlertRuleTemplateName |-> dd.alert_rule_template_guid,
     Enabled |-> dd.enabled,
     Etag |-> NoEtag]

\* ProbeResult that takes only a rule of its own kind for an existing rule.
ProbeResult_OwnKindOnly(r) ==
    IF r.status = "error" THEN "remote"
    ELSE IF /\ alertRuleID(r.Value) # EmptyString
            /\ r.Value.rule.kind = KindMLBehaviorAnalytics THEN "exists"
    ELSE "none"

\* ProbeResult that takes every failure of the probe for a not-found.
ProbeResult_AnyFailureIsAbsence(r) ==
    IF alertRuleID(r.Value) # EmptyString THEN "exists" ELSE "none"

\* Lines 86-95: what the creation returns after its probe, "none" to go on.
ProbeResult(r) ==
    IF r.status = "error" THEN "remote"
    ELSE IF alertRuleID(r.Value) # EmptyString THEN "exists"
    ELSE "none"

\* FetchResult without the assertion of the kind.
FetchResult_Unasserted(r) == IF r.status # "ok" THEN "remote" ELSE "none"

\* Lines 109-115: what the update returns after its Get, "none" to go on.
FetchResult(r) ==
    IF r.status # "ok" THEN "remote"
    ELSE IF ~assertAlertRuleKind(r.Value, KindMLBehaviorAnalytics) THEN "kind"
    ELSE "none"

\* WithEtag that leaves the payload without etag.
WithEtag_Dropped(p, r) == p

\* WithEtag that makes up the etag of a first version.
WithEtag_Synthesized(p, r) == [p EXCEPT !.Etag = 1]

\* Line 116: the etag of the fetched rule goes into the payload.
WithEtag(p, r) == [p EXCEPT !.Etag = r.Value.rule.etag]

\* WriteResult that stores the identifier before looking at the outcome.
WriteResult_IdFirst(dd, i, outcome) == [dd EXCEPT !.id = FormatAlertRuleID(i)]

\* Lines 119-123: the identifier after CreateOrUpdate has answered.
WriteResult(dd, i, outcome) ==
    IF outcome = "ok" THEN [dd EXCEPT !.id = FormatAlertRuleID(i)] ELSE dd

\* TrailingRead that returns without calling Read.
TrailingRead_Skipped(dd) ==
    [pc |-> "idle", id |-> ParseAlertRuleID(dd.id).id, err |-> "none"]

\* Lines 125, 129-136: CreateUpdate ends in Read, which parses d.Id().
TrailingRead(dd) ==
    LET p == ParseAlertRuleID(dd.id)
    IN  IF p.ok THEN [pc |-> "read", id |-> p.id, err |-> "none"]
        ELSE [pc |-> "idle", id |-> p.id, err |-> "parse"]

\* Create is invoked with a configuration: lines 72-82.
BeginCreate ==
    /\ pc = "idle"
    /\ \E n \in Names, w \in WorkspaceInputs, g \in Guids, e \in BOOLEAN :
          LET dd == [id |-> EmptyString, name |-> n,
                     log_analytics_workspace_id |-> w,
                     alert_rule_template_guid |-> g, enabled |-> e]
              ws == ParseWorkspaceID(w)
          IN  /\ d' = dd
              /\ cfg' = Fields(dd)
              /\ IF ws.ok
                 THEN /\ id' = NewAlertRuleID(ws.SubscriptionId, ws.ResourceGroup,
                                              ws.WorkspaceName, n)
                      /\ pc' = "probe"
                      /\ err' = "none"
                 ELSE /\ id' = NoId
                      /\ pc' = "idle"
                      /\ err' = "parse"
    /\ isNew' = TRUE
    /\ op' = "Create"
    /\ afterCreate' = (op = "Create" /\ err = "none")
    /\ params' = NoParams
    /\ resp' = NoResp
    /\ calls' = << >>
    /\ UNCHANGED << remote, nextEtag, deleted >>

\* Update is invoked on a resource that is in state, with a new enabled flag
\* (the other fields force a new resource): lines 72-82.
BeginUpdate ==
    /\ pc = "idle"
    /\ d.id # EmptyString
    /\ \E e \in BOOLEAN :
          LET dd == [d EXCEPT !.enabled = e]
              ws == ParseWorkspaceID(dd.log_analytics_workspace_id)
          IN  /\ d' = dd
              /\ cfg' = Fields(dd)
              /\ IF ws.ok
                 THEN /\ id' = NewAlertRuleID(ws.SubscriptionId, ws.ResourceGroup,
                                              ws.WorkspaceName, dd.name)
                      /\ pc' = "fetch"
                      /\ err' = "none"
                 ELSE /\ id' = NoId
                      /\ pc' = "idle"
                      /\ err' = "parse"
    /\ isNew' = FALSE
    /\ op' = "Update"
    /\ afterCreate' = (op = "Create" /\ err = "none")
    /\ params' = NoParams
    /\ resp' = NoResp
    /\ calls' = << >>
    /\ UNCHANGED << remote, nextEtag, deleted >>

\* Lines 84-104: the probe of a creation.
ProbeGet ==
    /\ pc = "probe"
    /\ \E r \in GetResponses(KeyOf(id)) :
          /\ resp' = r
          /\ calls' = Append(calls, Call("Get", r.status, r.Value, NoParams))
          /\ err' = ProbeResult(r)
          /\ IF ProbeResult(r) = "none"
             THEN pc' = "write" /\ params' = BuildParams(d)
             ELSE pc' = "idle" /\ params' = params
    /\ UNCHANGED << remote, nextEtag, d, cfg, isNew, op, id, afterCreate, deleted >>

\* Lines 98-117: the Get of an update.
FetchGet ==
    /\ pc = "fetch"
    /\ \E r \in GetResponses(KeyOf(id)) :
          /\ resp' = r
          /\ calls' = Append(calls, Call("Get", r.status, r.Value, NoParams))
          /\ err' = FetchResult(r)
          /\ IF FetchResult(r) = "none"
             THEN pc' = "write" /\ params' = WithEtag(BuildParams(d), r)
             ELSE pc' = "idle" /\ params' = BuildParams(d)
    /\ UNCHANGED << remote, nextEtag, d, cfg, isNew, op, id, afterCreate, deleted >>

\* Lines 119-125 and 129-136: CreateOrUpdate, SetId, and the beginning of Read.
Write ==
    /\ pc = "write"
    /\ \E o \in WriteOutcomes(KeyOf(id), params) :
          LET dd == WriteResult(d, id, o)
              rd == TrailingRead(dd)
          IN  /\ calls' = Append(calls, Call("CreateOrUpdate", o, NilValue, params))
              /\ d' = dd
              /\ IF o = "ok"
                 THEN /\ remote' = [remote EXCEPT ![KeyOf(id)] = Stored(params)]
                      /\ nextEtag' = nextEtag + 1
                      /\ deleted' = deleted \ {KeyOf(id)}
                      /\ pc' = rd.pc
                      /\ id' = rd.id
                      /\ err' = rd.err
                 ELSE /\ pc' = "idle"
                      /\ err' = "remote"
                      /\ UNCHANGED << remote, nextEtag, deleted, id >>
    /\ UNCHANGED << cfg, isNew, op, params, resp, afterCreate >>

(* ------------------------------------------------------------------ Read *)

\* Lines 152-162: the fields Read sets from the identifier and the rule.
Project(dd, i, rule) ==
    LET named == [dd EXCEPT
                    !.name = i.Name,
                    !.log_analytics_workspace_id =
                        FormatWorkspaceID(i.SubscriptionId, i.ResourceGroup,
                                          i.WorkspaceName)]
    IN  IF rule.hasProps
        THEN [named EXCEPT !.enabled = rule.enabled,
                           !.alert_rule_template_guid = rule.guid]
        ELSE named

\* ReadResult that returns on a not-found without clearing the identifier.
ReadResult_NotFoundKeepsId(dd, i, r) ==
    IF r.status = "notfound"
    THEN [d |-> dd, err |-> "none"]
    ELSE IF r.status # "ok"
    THEN [d |-> dd, err |-> "remote"]
    ELSE IF ~assertAlertRuleKind(r.Value, KindMLBehaviorAnalytics)
    THEN [d |-> dd, err |-> "kind"]
    ELSE [d |-> Project(dd, i, r.Value.rule), err |-> "none"]

\* ReadResult that takes a not-found for a failure like any other.
ReadResult_NotFoundIsError(dd, i, r) ==
    IF r.status # "ok"
    THEN [d |-> dd, err |-> "remote"]
    ELSE IF ~assertAlertRuleKind(r.Value, KindMLBehaviorAnalytics)
    THEN [d |-> dd, err |-> "kind"]
    ELSE [d |-> Project(dd, i, r.Value.rule), err |-> "none"]

\* Lines 139-164: the ResourceData and the error Read returns with, given
\* what Get answered.
ReadResult(dd, i, r) ==
    IF r.status = "notfound"
    THEN [d |-> [dd EXCEPT !.id = EmptyString], err |-> "none"]
    ELSE IF r.status # "ok"
    THEN [d |-> dd, err |-> "remote"]
    ELSE IF ~assertAlertRuleKind(r.Value, KindMLBehaviorAnalytics)
    THEN [d |-> dd, err |-> "kind"]
    ELSE [d |-> Project(dd, i, r.Value.rule), err |-> "none"]

\* Read is invoked on the ResourceData as it is: lines 129-136.
BeginRead ==
    /\ pc = "idle"
    /\ LET p == ParseAlertRuleID(d.id)
       IN  /\ id' = p.id
           /\ pc' = IF p.ok THEN "read" ELSE "idle"
           /\ err' = IF p.ok THEN "none" ELSE "parse"
    /\ isNew' = FALSE
    /\ op' = "Read"
    /\ afterCreate' = (op = "Create" /\ err = "none")
    /\ params' = NoParams
    /\ resp' = NoResp
    /\ calls' = << >>
    /\ UNCHANGED << remote, nextEtag, d, cfg, deleted >>

\* Lines 138-164: the Get of Read, invoked alone or at the end of
\* CreateUpdate.
ReadGet ==
    /\ pc = "read"
    /\ \E r \in GetResponses(KeyOf(id)) :
          /\ resp' = r
          /\ calls' = Append(calls, Call("Get", r.status, r.Value, NoParams))
          /\ d' = ReadResult(d, id, r).d
          /\ err' = ReadResult(d, id, r).err
    /\ pc' = "idle"
    /\ UNCHANGED << remote, nextEtag, cfg, isNew, op, id, params, afterCreate, deleted >>

(* ---------------------------------------------------------------- Delete *)

\* Lines 177-181: what Delete returns, given what the service answered.
DeleteResult(outcome) == IF outcome = "ok" THEN "none" ELSE "remote"

\* Delete is invoked on the ResourceData as it is: lines 168-175.
BeginDelete ==
    /\ pc = "idle"
    /\ LET p == ParseAlertRuleID(d.id)
       IN  /\ id' = p.id
           /\ pc' = IF p.ok THEN "delete" ELSE "idle"
           /\ err' = IF p.ok THEN "none" ELSE "parse"
    /\ isNew' = FALSE
    /\ op' = "Delete"
    /\ afterCreate' = (op = "Create" /\ err = "none")
    /\ params' = NoParams
    /\ resp' = NoResp
    /\ calls' = << >>
    /\ UNCHANGED << remote, nextEtag, d, cfg, deleted >>

\* Lines 177-181: the Delete call.
DeleteCall ==
    /\ pc = "delete"
    /\ \E o \in DeleteOutcomes(KeyOf(id)) :
          /\ calls' = Append(calls, Call("Delete", o, NilValue, NoParams))
          /\ err' = DeleteResult(o)
          /\ IF o = "ok"
             THEN /\ remote' = [remote EXCEPT ![KeyOf(id)] = Absent]
                  /\ deleted' = deleted \cup {KeyOf(id)}
             ELSE UNCHANGED << remote, deleted >>
    /\ pc' = "idle"
    /\ UNCHANGED << nextEtag, d, cfg, isNew, op, id, params, resp, afterCreate >>

(* ---------------------------------------------------------------- Import *)

\* The identifiers an import may be given: those of the rules, and one that
\* is no alert rule identifier.
ImportIds ==
    {FormatAlertRuleID(NewAlertRuleID(Subscription, ResourceGroup,
                                      WorkspaceName, n)) : n \in Names}
        \cup {ValidWorkspaceInput}

\* importSentinelAlertRule(expectKind): what the import returns, given what
\* Get answered: the rule is adopted when it is there and of the kind.
ImportResult(r) ==
    IF r.status # "ok" THEN "remote"
    ELSE IF ~assertAlertRuleKind(r.Value, KindMLBehaviorAnalytics) THEN "kind"
    ELSE "none"

\* Lines 28-31: the import is invoked on a ResourceData that holds only the
\* identifier given, and first validates it with parse.AlertRuleID; a failed
\* import yields no ResourceData.
BeginImport ==
    /\ pc = "idle"
    /\ \E s \in ImportIds :
          LET p == ParseAlertRuleID(s)
          IN  /\ id' = p.id
              /\ d' = IF p.ok THEN [EmptyData EXCEPT !.id = s] ELSE EmptyData
              /\ pc' = IF p.ok THEN "import" ELSE "idle"
              /\ err' = IF p.ok THEN "none" ELSE "parse"
    /\ isNew' = FALSE
    /\ op' = "Import"
    /\ afterCreate' = (op = "Create" /\ err = "none")
    /\ params' = NoParams
    /\ resp' = NoResp
    /\ calls' = << >>
    /\ cfg' = Fields(EmptyData)
    /\ UNCHANGED << remote, nextEtag, deleted >>

\* Line 31: the Get of the import and the check of the kind; the
\* ResourceData is kept, with its identifier and no field set, when the
\* import returns no error.
ImportGet ==
    /\ pc = "import"
    /\ \E r \in GetResponses(KeyOf(id)) :
          /\ resp' = r
          /\ calls' = Append(calls, Call("Get", r.status, r.Value, NoParams))
          /\ err' = ImportResult(r)
          /\ d' = IF ImportResult(r) = "none" THEN d ELSE EmptyData
    /\ pc' = "idle"
    /\ UNCHANGED << remote, nextEtag, cfg, isNew, op, id, params, afterCreate,
                    deleted >>

(* --------------------------------------------------------- specifications *)

Local ==
    \/ BeginCreate
    \/ BeginUpdate
    \/ BeginRead
    \/ BeginDelete
    \/ BeginImport
    \/ ProbeGet
    \/ FetchGet
    \/ Write
    \/ ReadGet
    \/ DeleteCall
    \/ ImportGet

Next ==
    \/ BeginCreate
    \/ BeginUpdate
    \/ BeginRead
    \/ BeginDelete
    \/ BeginImport
    \/ ProbeGet
    \/ FetchGet
    \/ Write
    \/ ReadGet
    \/ DeleteCall
    \/ ImportGet
    \/ ForeignWrite
    \/ ForeignDelete

\* The resource and other actors on the remote collection.
Spec == Init /\ [][Next]_vars

\* The resource alone on a collection that starts empty.
SoloSpec == Init /\ [][Local]_vars

(* ----------------------------------------------------------------- claims *)

\* The handler issues a remote call in this step.
Calls == Len(calls') = Len(calls) + 1
\* The remote call issued in this step.
Issued == calls'[Len(calls')]

Wrote(cs) == \E n \in DOMAIN cs : cs[n].call = "CreateOrUpdate"

\* The identifier derived from the configured workspace and name.
DerivedId ==
    LET ws == ParseWorkspaceID(cfg.log_analytics_workspace_id)
    IN  FormatAlertRuleID(NewAlertRuleID(ws.SubscriptionId, ws.ResourceGroup,
                                         ws.WorkspaceName, cfg.name))

\* C1: when the probe of a creation finds a rule at the derived identifier,
\* of whatever kind, CreateUpdate returns the "already exists" error, has
\* not called CreateOrUpdate, leaves the remote rule as it is and sets no
\* local identifier.
C1_CreateOnExistingConflicts ==
    [][ (pc = "probe" /\ Calls /\ Issued.outcome = "ok")
          => /\ Issued.call = "Get" /\ Issued.Value.ID = FormatAlertRuleID(id)
             /\ pc' = "idle"
             /\ err' = "exists"
             /\ ~Wrote(calls')
             /\ remote' = remote
             /\ d'.id = EmptyString ]_vars

C1_Witness ==
    /\ pc = "idle" /\ op = "Create" /\ err = "exists"
    /\ Len(calls) = 1 /\ calls[1].outcome = "ok"
    /\ calls[1].Value.rule.kind = KindFusion
    /\ remote[KeyOf(id)] = calls[1].Value.rule
    /\ d.id = EmptyString

\* C2: when the Get of an update or of Read returns a rule of another kind,
\* the handler returns the kind-mismatch error; the update has not called
\* CreateOrUpdate and Read has set no field.
C2_KindGuardsEveryUse ==
    [][ (pc \in {"fetch", "read"} /\ Calls /\ Issued.outcome = "ok"
           /\ Issued.Value.rule.kind # KindMLBehaviorAnalytics)
          => /\ pc' = "idle"
             /\ err' = "kind"
             /\ ~Wrote(calls') \/ pc = "read"
             /\ remote' = remote
             /\ d' = d ]_vars

C2_Witness ==
    /\ pc = "idle" /\ op = "Update" /\ err = "kind"
    /\ Len(calls) = 1 /\ calls[1].Value.rule.kind = KindFusion
    /\ calls[1].Value.rule.enabled # d.enabled

\* C3: when the Get of Read answers not-found, Read clears the local
\* identifier and returns no error, and sets no field.
C3_ReadNotFoundClears ==
    [][ (pc = "read" /\ Calls /\ Issued.outcome = "notfound")
          => /\ pc' = "idle"
             /\ err' = "none"
             /\ d'.id = EmptyString
             /\ Fields(d') = Fields(d) ]_vars

C3_Witness ==
    /\ pc = "idle" /\ op = "Read" /\ err = "none"
    /\ Len(calls) = 1 /\ calls[1].outcome = "notfound"
    /\ d.id = EmptyString /\ d.name \in Names

\* C4: with no other actor on the collection, after a Create that returned
\* no error, and after a Read that follows it and returns no error, the four
\* fields of the ResourceData are the configuration given to Create, and the
\* ResourceData has no field for the etag.
C4_CreateReadRoundTrip ==
    (/\ pc = "idle" /\ err = "none"
     /\ \/ op = "Create"
        \/ op = "Read" /\ afterCreate)
      => /\ Fields(d) = cfg
         /\ DOMAIN d = {"id", "name", "log_analytics_workspace_id",
                        "alert_rule_template_guid", "enabled"}
         /\ d.alert_rule_template_guid \in Guids
         /\ d.enabled \in BOOLEAN

C4_Witness ==
    /\ pc = "idle" /\ op = "Read" /\ afterCreate /\ err = "none"
    /\ Len(calls) = 1 /\ calls[1].outcome = "ok"
    /\ d.id = DerivedId
    /\ d.enabled = FALSE /\ d.alert_rule_template_guid = "guid2"

\* C5: a Read of an identifier that Delete has deleted, and that nobody has
\* written since, ends with the local identifier empty and no error,
\* whenever the service answers its Get.
C5_DeleteThenReadClears ==
    (/\ pc = "idle" /\ op = "Read"
     /\ Len(calls) = 1 /\ calls[1].outcome # "error"
     /\ KeyOf(id) \in deleted)
      => /\ calls[1].outcome = "notfound"
         /\ d.id = EmptyString
         /\ err = "none"

C5_Witness ==
    /\ pc = "idle" /\ op = "Read" /\ err = "none"
    /\ Len(calls) = 1 /\ calls[1].outcome = "notfound"
    /\ KeyOf(id) \in deleted
    /\ d.id = EmptyString

\* The names of the remote calls of the handler, in the order issued.
CallNames == [n \in DOMAIN calls |-> calls[n].call]

IsPrefix(s, t) == Len(s) <= Len(t) /\ s = SubSeq(t, 1, Len(s))

\* C6 as stated: every handler that has returned has issued exactly one
\* remote call (granted that the identifier it was given parses).
C6_ExactlyOneCall ==
    (pc = "idle" /\ op # "none" /\ err # "parse") => Len(calls) = 1

\* C6, amended: Read and Delete issue one remote call, none when the stored
\* identifier does not parse.  Create and Update issue a Get, then
\* CreateOrUpdate, then the Get of the trailing Read, each at most once, and
\* all three when they return no error.
C6_CallsPerHandler ==
    /\ op = "Read" => IsPrefix(CallNames, << "Get" >>)
    /\ op = "Delete" => IsPrefix(CallNames, << "Delete" >>)
    /\ op \in {"Create", "Update"}
         => IsPrefix(CallNames, << "Get", "CreateOrUpdate", "Get" >>)
    /\ (pc = "idle" /\ op \in {"Read", "Delete"})
         => Len(calls) = (IF err = "parse" THEN 0 ELSE 1)
    /\ (pc = "idle" /\ op \in {"Create", "Update"} /\ err = "none")
         => Len(calls) = 3
    /\ (pc = "idle" /\ op \in {"Create", "Update"} /\ err = "parse")
         => Len(calls) = 0

C6_Witness ==
    /\ pc = "idle" /\ op = "Create" /\ err = "none"
    /\ CallNames = << "Get", "CreateOrUpdate", "Get" >>
    /\ calls[1].outcome = "notfound" /\ calls[2].outcome = "ok"
    /\ calls[3].outcome = "ok"

\* C7: the payload of the CreateOrUpdate of an update carries the etag of
\* the rule that the Get of the same update returned; the payload of a
\* creation carries no etag.
C7_EtagThreadedThrough ==
    \A n \in DOMAIN calls :
        calls[n].call = "CreateOrUpdate"
          => IF isNew
             THEN calls[n].params.Etag = NoEtag
             ELSE /\ n = 2
                  /\ calls[1].call = "Get" /\ calls[1].outcome = "ok"
                  /\ calls[1].Value.rule.etag \in Etags
                  /\ calls[n].params.Etag = calls[1].Value.rule.etag

C7_Witness ==
    /\ op = "Update" /\ Len(calls) >= 2
    /\ calls[2].call = "CreateOrUpdate" /\ calls[2].outcome = "ok"
    /\ calls[2].params.Etag = calls[1].Value.rule.etag
    /\ calls[2].params.Etag > 1

\* C8: the CreateOrUpdate of an update replaces the rule only when the rule
\* is still the one its Get returned; when another actor has written or
\* deleted the rule since that Get, the update returns an error and leaves
\* the remote collection as it is.
C8_NoLostUpdate ==
    [][ (pc = "write" /\ op = "Update" /\ Calls)
          => \/ remote[KeyOf(id)] = resp.Value.rule
             \/ /\ remote' = remote
                /\ pc' = "idle"
                /\ err' = "remote" ]_vars

C8_Witness ==
    /\ pc = "idle" /\ op = "Update" /\ err = "remote"
    /\ Len(calls) = 2 /\ calls[2].outcome = "precondition"
    /\ remote[KeyOf(id)].exists
    /\ remote[KeyOf(id)].etag > calls[1].Value.rule.etag
    /\ remote[KeyOf(id)].enabled # calls[2].params.Enabled

\* C9: a remote call that fails, other than with a not-found in Read or in
\* the probe of a creation, ends the handler with an error, with the local
\* identifier as it was (a failed import adopts none); a not-found in Read
\* ends it without error, and a not-found in the probe takes the creation on
\* to its write.
C9_FailuresAreFinal ==
    [][ Calls =>
          /\ (Issued.outcome \notin {"ok", "notfound"}
                \/ (Issued.outcome = "notfound" /\ pc \notin {"probe", "read"}))
               => /\ pc' = "idle"
                  /\ err' = "remote"
                  /\ d'.id = (IF pc = "import" THEN EmptyString ELSE d.id)
                  /\ remote' = remote
          /\ (Issued.outcome = "notfound" /\ pc = "probe")
               => pc' = "write" /\ err' = "none"
          /\ (Issued.outcome = "notfound" /\ pc = "read")
               => pc' = "idle" /\ err' = "none" ]_vars

C9_Witness ==
    /\ pc = "idle" /\ op = "Create" /\ err = "remote"
    /\ Len(calls) = 3 /\ calls[3].outcome = "error"
    /\ d.id = DerivedId

\* C10 as stated: whenever CreateUpdate has returned without error, the
\* local identifier is the derived one.
C10_PresentAfterCreateUpdate ==
    (pc = "idle" /\ op \in {"Create", "Update"} /\ err = "none")
      => d.id = DerivedId

\* C10, amended: whenever CreateUpdate has returned without error, the local
\* identifier is the derived one, or it is empty and the Get of the
\* trailing Read answered not-found; and a step of CreateUpdate stores an
\* identifier only when its CreateOrUpdate has succeeded.
C10_PresentUnlessGone ==
    /\ [](  (pc = "idle" /\ op \in {"Create", "Update"} /\ err = "none")
              => /\ Len(calls) = 3
                 /\ calls[2].outcome = "ok"
                 /\ IF calls[3].outcome = "notfound"
                    THEN d.id = EmptyString
                    ELSE d.id = DerivedId /\ d.id # EmptyString )
    /\ [][ (op' \in {"Create", "Update"} /\ d'.id # d.id /\ d'.id # EmptyString)
             => /\ pc = "write" /\ Calls
                /\ Issued.call = "CreateOrUpdate" /\ Issued.outcome = "ok"
                /\ d'.id = DerivedId ]_vars

C10_Witness ==
    /\ pc = "idle" /\ op = "Create" /\ err = "none"
    /\ Len(calls) = 3 /\ calls[2].outcome = "ok"
    /\ calls[3].outcome = "notfound"
    /\ d.id = EmptyString

====
